---- MODULE Spec2Model ----
(***************************************************************************)
(* A model of prlearn::RefinementTree (src/src/RefinementTree.cpp): the    *)
(* per-label forest of binary partition trees kept in one node arena, the  *)
(* update / lookup / getBestQ operations, split execution, rebalancing and *)
(* the construction of the correction LP.                                  *)
(*                                                                         *)
(* Doubles are modelled as exact extended rationals (finite n/d, NaN,      *)
(* +inf, -inf).  A variance is 0, NaN or "some positive value".            *)
(* Indices (node ids, dimensions, LP columns) are 0-based as in the code.  *)
(***************************************************************************)
EXTENDS Integers, Sequences, FiniteSets, TLC

\* ------------------------------------------------------------------ bounds
\* number of update calls explored
MaxUpdates == 2
\* number of update calls explored on a single tree
MaxDeepUpdates == 4
\* number of update calls before lookup / getBestQ are explored
MaxReadUpdates == 2

\* ------------------------------------------------------------ configuration
\* dimen, the number of input dimensions handed to update
Dimen == 2
Dims == 0 .. (Dimen - 1)
\* options._filter_val
filter_val == 2

\* ------------------------------------------------------------------ doubles
Abs(x) == IF x < 0 THEN -x ELSE x

RECURSIVE Gcd(_, _)
Gcd(a, b) == IF b = 0 THEN a ELSE Gcd(b, a % b)

\* the finite double n/d (d > 0), in lowest terms
Fin(n, d) ==
    LET g == Gcd(Abs(n), d)
    IN  [t |-> "fin", n |-> n \div g, d |-> d \div g]

Num(k) == [t |-> "fin", n |-> k, d |-> 1]
NaN  == [t |-> "nan",  n |-> 0, d |-> 1]
PInf == [t |-> "pinf", n |-> 0, d |-> 1]
NInf == [t |-> "ninf", n |-> 0, d |-> 1]
\* a positive finite value that is not tracked exactly (variances only)
Pos  == [t |-> "pos",  n |-> 0, d |-> 1]

isnan(x) == x.t = "nan"
isinf(x) == x.t \in {"pinf", "ninf"}
IsFin(x) == x.t = "fin"

Neg(x) ==
    CASE x.t = "fin"  -> Fin(-x.n, x.d)
      [] x.t = "pinf" -> NInf
      [] x.t = "ninf" -> PInf
      [] OTHER        -> NaN

Add(x, y) ==
    CASE isnan(x) \/ isnan(y)            -> NaN
      [] IsFin(x) /\ IsFin(y)            -> Fin(x.n * y.d + y.n * x.d, x.d * y.d)
      [] isinf(x) /\ isinf(y) /\ x # y   -> NaN
      [] isinf(x)                        -> x
      [] OTHER                           -> y

Sub(x, y) == Add(x, Neg(y))

\* x * k for a count k >= 0
MulN(x, k) ==
    CASE isnan(x)  -> NaN
      [] IsFin(x)  -> Fin(x.n * k, x.d)
      [] k = 0     -> NaN
      [] OTHER     -> x

\* x / k for a count k > 0
DivN(x, k) ==
    CASE isnan(x)  -> NaN
      [] IsFin(x)  -> Fin(x.n, x.d * k)
      [] OTHER     -> x

\* x < y on doubles: false as soon as one side is NaN
Lt(x, y) ==
    CASE isnan(x) \/ isnan(y)   -> FALSE
      [] IsFin(x) /\ IsFin(y)   -> x.n * y.d < y.n * x.d
      [] x.t = "ninf"           -> y.t # "ninf"
      [] y.t = "pinf"           -> x.t # "pinf"
      [] OTHER                  -> FALSE

\* x <= y on doubles
Leq(x, y) == ~isnan(x) /\ ~isnan(y) /\ ~Lt(y, x)

\* std::min(a, b) and std::max(a, b)
StdMin(a, b) == IF Lt(b, a) THEN b ELSE a
StdMax(a, b) == IF Lt(a, b) THEN b ELSE a

MinNat(a, b) == IF b < a THEN b ELSE a
MaxNat(a, b) == IF a < b THEN b ELSE a

RECURSIVE Pow5(_)
Pow5(k) == IF k = 0 THEN 1 ELSE 5 * Pow5(k - 1)

\* ------------------------------------------------------------- statistics
\* avg_t: a running mean of coordinates
EmptyAvg == [avg |-> Num(0), cnt |-> 0]

\* avg_t::operator+=(double)
AvgAdd(a, x) ==
    LET c == a.cnt + 1
    IN  [avg |-> Add(a.avg, DivN(Sub(x, a.avg), c)), cnt |-> c]

\* avg_t::operator+=(const avg_t&): count-weighted merge
AvgMerge(a, b) ==
    LET c == a.cnt + b.cnt
    IN  IF b.cnt = 0 THEN a
        ELSE IF a.cnt = 0 THEN b
        ELSE [avg |-> DivN(Add(MulN(a.avg, a.cnt), MulN(b.avg, b.cnt)), c), cnt |-> c]

\* qvar_t: mean, count and variance of a value stream
EmptyQ == [avg |-> Num(0), cnt |-> 0, var |-> Num(0)]

\* qvar_t(double avg, size_t cnt, double variance)
qvar_t(a, c, v) == [avg |-> a, cnt |-> c, var |-> v]

\* qvar_t::operator+=(double): one more sample
QAdd(q, x) ==
    LET c  == q.cnt + 1
        na == Add(q.avg, DivN(Sub(x, q.avg), c))
        nv == IF ~IsFin(x) \/ ~IsFin(q.avg) \/ isnan(q.var) THEN NaN
              ELSE IF c = 1 THEN Num(0)
              ELSE IF q.var = Num(0) /\ x = q.avg THEN Num(0)
              ELSE Pos
    IN  [avg |-> na, cnt |-> c, var |-> nv]

\* qvar_t::approximate(a, b): merge of two streams
approximate(a, b) ==
    IF a.cnt = 0 THEN b
    ELSE IF b.cnt = 0 THEN a
    ELSE LET c == a.cnt + b.cnt
             m == DivN(Add(MulN(a.avg, a.cnt), MulN(b.avg, b.cnt)), c)
             v == IF isnan(m) \/ isinf(m) \/ isnan(a.var) \/ isnan(b.var) THEN NaN
                  ELSE IF a.var = Num(0) /\ b.var = Num(0) /\ a.avg = b.avg THEN Num(0)
                  ELSE Pos
         IN  [avg |-> m, cnt |-> c, var |-> v]

\* ------------------------------------------------------------------ inputs
\* evidence values a SplitFilter reports after add(); reset() leaves 0
Evidence == {1, 2}
\* values of std::rand()
RandVals == {0, 1}
\* what the LP solver answers: no problem object, an optimum, anything else
SolverResults == {"noprob", "opt", "fail"}

Pt(a, b) == [i \in Dims |-> IF i = 0 THEN Num(a) ELSE Num(b)]

\* The calls explored.  "wide": three labels, few calls.  "deep": one tree,
\* more calls.  "read": three labels and non-finite values, then queries.
Inputs(s) ==
    CASE s = "wide" ->
           [labels |-> {1, 2, 3}, points |-> {Pt(0, 1), Pt(1, 0)},
            nvals |-> {Num(0), Num(1)}, evs |-> [Dims -> Evidence],
            rates |-> {2}, solvers |-> SolverResults, depth |-> MaxUpdates]
      [] s = "deep" ->
           [labels |-> {2}, points |-> {Pt(0, 1), Pt(1, 0)},
            nvals |-> {Num(0), Num(1)},
            evs |-> {[i \in Dims |-> 1], [i \in Dims |-> IF i = 0 THEN 2 ELSE 1]},
            rates |-> {0, 1}, solvers |-> {"opt", "fail"}, depth |-> MaxDeepUpdates]
      [] OTHER ->
           [labels |-> {1, 2, 3}, points |-> {Pt(0, 1)},
            nvals |-> {Num(1), Num(3), NaN, PInf},
            evs |-> {[i \in Dims |-> 1], [i \in Dims |-> IF i = 0 THEN 2 ELSE 1]},
            rates |-> {2}, solvers |-> SolverResults, depth |-> MaxReadUpdates]

\* labels handed to lookup and getBestQ, some of them never updated
LookupLabels == {0, 1, 2, 3, 4}
QueryPoints == {Pt(0, 1), Pt(1, 0)}
\* ascending candidate lists, and the null pointer
NullLabels == <<-1>>
CandidateLists ==
    {NullLabels, <<>>, <<2>>, <<0, 1>>, <<1, 3>>, <<2, 4>>, <<1, 2, 3>>, <<0, 2, 3, 4>>}

\* --------------------------------------------------------------- the arena
\* qdata_t of a fresh leaf
NewQData ==
    [midpoint |-> EmptyAvg, lowq |-> EmptyQ, highq |-> EmptyQ,
     lmid |-> EmptyAvg, hmid |-> EmptyAvg, splitfilter |-> 0]

NullData == <<>>

\* the array f[0 .. dimen - 1] with every element computed
RECURSIVE Elements(_, _)
Elements(f, k) == IF k = 0 THEN <<>> ELSE Append(Elements(f, k - 1), f[k - 1])
Array(f) == LET t == Elements(f, Dimen) IN [i \in Dims |-> t[i + 1]]

\* std::make_unique<qdata_t[]>(dimen)
NewData == [i \in Dims |-> NewQData]

\* node_t(): a leaf without statistics
NewNode ==
    [q |-> EmptyQ, cnt |-> 0, data |-> NullData,
     is_split |-> FALSE, var |-> 0, boundary |-> Num(0), low |-> 0, high |-> 0,
     correction |-> FALSE]

VARIABLES
    nodes,      \* _nodes: the arena, node i at nodes[i + 1]
    mapping,    \* _mapping: sequence of [label, nid], sorted by label
    opts,       \* the options handed to every update
    steps,      \* update calls so far
    seen,       \* labels ever handed to update
    scen,       \* which calls are explored
    phase,      \* "learn" while updates are made, "query" afterwards
    last        \* what the last call did

vars == <<nodes, mapping, opts, steps, seen, scen, phase, last>>

In == Inputs(scen)

At(ns, i) == ns[i + 1]
Put(ns, i, v) == [ns EXCEPT ![i + 1] = v]


\* ------------------------------------------------------------------ descent
\* get_leaf with the boundary itself sent to the high child
RECURSIVE get_leaf_Exclusive(_, _, _)
get_leaf_Exclusive(ns, point, current) ==
    LET node == At(ns, current)
    IN  IF ~node.is_split THEN current
        ELSE IF Lt(point[node.var], node.boundary)
             THEN get_leaf_Exclusive(ns, point, node.low)
             ELSE get_leaf_Exclusive(ns, point, node.high)

\* node_t::get_leaf(point, current, nodes)
RECURSIVE get_leaf(_, _, _)
get_leaf(ns, point, current) ==
    LET node == At(ns, current)
    IN  IF ~node.is_split THEN current
        ELSE IF Leq(point[node.var], node.boundary)
             THEN get_leaf(ns, point, node.low)
             ELSE get_leaf(ns, point, node.high)

\* std::upper_bound in the place of std::lower_bound
lower_bound_Upper(m, label) ==
    LET hits == {j \in 1 .. Len(m) : m[j].label > label}
    IN  IF hits = {} THEN Len(m) + 1
        ELSE CHOOSE j \in hits : \A k \in hits : j <= k

\* std::lower_bound(_mapping, el_t(label)): 1-based position of the first entry
\* whose label is not below label, Len + 1 when there is none
lower_bound(m, label) ==
    LET hits == {j \in 1 .. Len(m) : m[j].label >= label}
    IN  IF hits = {} THEN Len(m) + 1
        ELSE CHOOSE j \in hits : \A k \in hits : j <= k

\* std::vector::insert(pos, el)
InsertAt(m, pos, el) ==
    [j \in 1 .. (Len(m) + 1) |->
        IF j < pos THEN m[j] ELSE IF j = pos THEN el ELSE m[j - 1]]

\* ------------------------------------------------------------------- lookup
\* lookup without the comparison of the entry's label
lookup_AnyEntry(ns, m, label, point) ==
    LET res == lower_bound(m, label)
    IN  IF res = Len(m) + 1
        THEN qvar_t(NaN, 0, Num(0))
        ELSE LET n    == get_leaf(ns, point, m[res].nid)
                 node == At(ns, n)
             IN  qvar_t(node.q.avg, node.cnt, node.q.var)

\* RefinementTree::lookup(label, point, dimen)
lookup(ns, m, label, point) ==
    LET res == lower_bound(m, label)
    IN  IF res = Len(m) + 1 \/ m[res].label # label
        THEN qvar_t(NaN, 0, Num(0))
        ELSE LET n    == get_leaf(ns, point, m[res].nid)
                 node == At(ns, n)
             IN  qvar_t(node.q.avg, node.cnt, node.q.var)

\* ----------------------------------------------------------------- getBestQ
\* the fold without the std::isinf test
BestFold_NoInf(v, val, minimization) ==
    IF ~isnan(v)
    THEN (IF minimization THEN StdMin(v, val) ELSE StdMax(v, val))
    ELSE val

\* val = minimization ? std::min(v, val) : std::max(v, val), for a usable v
BestFold(v, val, minimization) ==
    IF ~isinf(v) /\ ~isnan(v)
    THEN (IF minimization THEN StdMin(v, val) ELSE StdMax(v, val))
    ELSE val

\* the loop over _mapping taken when next_labels is null, from entry k on
RECURSIVE BestAll(_, _, _, _, _, _)
BestAll(ns, m, point, minimization, k, val) ==
    IF k > Len(m) THEN val
    ELSE LET node == get_leaf(ns, point, m[k].nid)
             v    == At(ns, node).q.avg
         IN  BestAll(ns, m, point, minimization, k + 1, BestFold(v, val, minimization))

\* for(; j < _mapping.size() && _mapping[j]._label < next; ++j) {}  (j 0-based)
RECURSIVE Advance(_, _, _)
Advance(m, j, next) ==
    IF j < Len(m) /\ m[j + 1].label < next THEN Advance(m, j + 1, next) ELSE j

\* the merge-style loop over next_labels[i .. n_labels - 1]  (i, j 0-based)
RECURSIVE BestSome(_, _, _, _, _, _, _, _)
BestSome(ns, m, point, minimization, next_labels, i, j, val) ==
    IF i >= Len(next_labels) THEN val
    ELSE LET j2 == Advance(m, j, next_labels[i + 1])
         IN  IF j2 >= Len(m) THEN val
             ELSE IF m[j2 + 1].label # next_labels[i + 1]
                  THEN BestSome(ns, m, point, minimization, next_labels, i + 1, j2, val)
                  ELSE LET res  == m[j2 + 1]
                           node == get_leaf(ns, point, res.nid)
                           v    == At(ns, node).q.avg
                       IN  BestSome(ns, m, point, minimization, next_labels, i + 1, j2,
                                    BestFold(v, val, minimization))

\* RefinementTree::getBestQ(point, minimization, next_labels, n_labels)
getBestQ(ns, m, point, minimization, next_labels) ==
    LET val == IF minimization THEN PInf ELSE NInf
    IN  IF next_labels = NullLabels
        THEN BestAll(ns, m, point, minimization, 1, val)
        ELSE BestSome(ns, m, point, minimization, next_labels, 0, 0, val)


\* ------------------------------------------------------- the correction LP
\* nCol = dimen + dimen * 4 + 1
nCol == Dimen + Dimen * 4 + 1

\* the slack columns the row of (d, low) is given its +1 and -1 on
PosSlack(d, low) == Dimen + 2 + d + (IF low THEN 0 ELSE Dimen * 2)
NegSlack(d, low) == Dimen + 2 + d + Dimen + (IF low THEN 0 ELSE Dimen * 2)

\* the entries of row the code zeroes after the row is handed over
ResetPos(d, low) == Dimen + 2 + d + (IF low THEN 0 ELSE Dimen)
ResetNeg(d, low) == Dimen + 2 + d + Dimen + (IF low THEN 0 ELSE Dimen * 2)

\* the columns the two objective coefficients of (d, low) are set on
ObjPos(d, low) == Dimen + 2 + d + (IF low THEN 0 ELSE Dimen)
ObjNeg(d, low) == Dimen + 2 + d + Dimen + (IF low THEN 0 ELSE Dimen * 2)

NoCoef == [d |-> -1, low |-> FALSE, kind |-> "zero"]
EmptyLP == [rows |-> {}, obj |-> [c \in 0 .. nCol |-> NoCoef], built |-> FALSE]

\* row[i + 1] for the weights of the dimensions and the constant
RowWeights(data, row, d, low) ==
    [c \in 0 .. nCol |->
        IF c >= 1 /\ c <= Dimen
        THEN (IF c - 1 = d
              THEN (IF low THEN data[d].lmid.avg ELSE data[d].hmid.avg)
              ELSE AvgMerge(data[c - 1].lmid, data[c - 1].hmid).avg)
        ELSE IF c = Dimen + 1 THEN Num(1)
        ELSE row[c]]

\* the body of the loops over d and low, k = 2 * d + (low ? 0 : 1)
RECURSIVE BuildRows(_, _, _, _)
BuildRows(data, k, row, lp) ==
    IF k = 2 * Dimen THEN lp
    ELSE LET d     == k \div 2
             low   == (k % 2 = 0)
             rowno == k + 1
             qval  == IF low THEN data[d].lowq ELSE data[d].highq
         IN  IF qval.cnt = 0 THEN BuildRows(data, k + 1, row, lp)
             ELSE LET r1 == RowWeights(data, row, d, low)
                      r2 == [r1 EXCEPT ![PosSlack(d, low)] = Num(1),
                                       ![NegSlack(d, low)] = Num(-1)]
                      r3 == [r2 EXCEPT ![ResetPos(d, low)] = Num(0)]
                      r4 == [r3 EXCEPT ![ResetNeg(d, low)] = Num(0)]
                      o1 == [lp.obj EXCEPT ![ObjPos(d, low)] =
                                [d |-> d, low |-> low, kind |-> "pos"]]
                      o2 == [o1 EXCEPT ![ObjNeg(d, low)] =
                                [d |-> d, low |-> low, kind |-> "neg"]]
                      em == [rowno |-> rowno, d |-> d, low |-> low,
                             coef |-> [c \in 1 .. nCol |-> r2[c]], rhs |-> qval.avg]
                  IN  BuildRows(data, k + 1, r4,
                                [lp EXCEPT !.rows = @ \cup {em}, !.obj = o2])

\* for (i = 0; i <= dimen + 1; ++i) glp_set_obj_coef(lp, i, 0)
ZeroObj(lp) ==
    [lp EXCEPT !.obj = [c \in 0 .. nCol |-> IF c <= Dimen + 1 THEN NoCoef ELSE @[c]]]

\* the problem handed to glp_simplex
BuildLP(data) ==
    LET row0 == [c \in 0 .. nCol |-> Num(0)]
        lp   == ZeroObj(BuildRows(data, 0, row0, EmptyLP))
    IN  [lp EXCEPT !.built = TRUE]

\* set_correction that takes the solution whatever the solver's status
set_correction_AnyStatus(node, solver) ==
    IF node.q.var = Num(0)
    THEN [correction |-> node.correction, solver |-> "skipped", lp |-> EmptyLP]
    ELSE IF solver = "noprob"
    THEN [correction |-> node.correction, solver |-> "noprob", lp |-> EmptyLP]
    ELSE [correction |-> TRUE, solver |-> solver, lp |-> BuildLP(node.data)]

\* node_t::set_correction(dimen): [correction, solver, lp]
set_correction(node, solver) ==
    IF node.q.var = Num(0)
    THEN [correction |-> node.correction, solver |-> "skipped", lp |-> EmptyLP]
    ELSE IF solver = "noprob"
    THEN [correction |-> node.correction, solver |-> "noprob", lp |-> EmptyLP]
    ELSE [correction |-> (solver = "opt"), solver |-> solver, lp |-> BuildLP(node.data)]


\* ------------------------------------------------------------- node update
\* splitfilter_t::add(lowq, highq, ...): the evidence it reports afterwards is e
SplitFilterAdd(sf, lowq, highq, e) == e

\* splitfilter_t::reset()
SplitFilterReset(sf) == 0

\* the learning-rate cap and the new sample
LearnQ(q, nval, rate) == QAdd([q EXCEPT !.cnt = MinNat(q.cnt, rate)], nval)

\* one dimension of the loop over i: the new data point and the split filter
Refresh(dp, x, nval, e) ==
    LET d1 == IF Leq(x, dp.midpoint.avg)
              THEN [dp EXCEPT !.lowq = QAdd(@, nval), !.lmid = AvgAdd(@, x)]
              ELSE [dp EXCEPT !.highq = QAdd(@, nval), !.hmid = AvgAdd(@, x)]
    IN  [d1 EXCEPT !.splitfilter = SplitFilterAdd(@, d1.lowq, d1.highq, e)]

\* the critical value has to be exceeded
Qualifies_Above(dp) == dp.splitfilter > filter_val

\* whether dimension i reached the critical value
Qualifies(dp) == dp.splitfilter >= filter_val

\* the loop's cnt and svar: every <<cnt, svar>> std::rand() can lead to
RECURSIVE pick_svar(_, _, _, _)
pick_svar(data, i, cnt, svar) ==
    IF i = Dimen THEN {<<cnt, svar>>}
    ELSE IF Qualifies(data[i])
         THEN UNION {pick_svar(data, i + 1, cnt + 1,
                               IF (r % (cnt + 1)) = 0 THEN i ELSE svar) : r \in RandVals}
         ELSE pick_svar(data, i + 1, cnt, svar)

\* a child's value statistic without the seeding of an empty side
SeedQ_Never(q, oq) == q

\* a child's value statistic: the partition's, or the parent's mean when empty
SeedQ(q, oq) ==
    IF oq.cnt > 0 /\ q.cnt = 0
    THEN [avg |-> oq.avg, cnt |-> 1, var |-> Num(0)]
    ELSE q

\* a child's midpoints
ChildData(tmp, svar, low) ==
    Array([i \in Dims |->
        [NewQData EXCEPT !.midpoint =
            IF i = svar
            THEN (IF low THEN tmp[i].lmid ELSE tmp[i].hmid)
            ELSE AvgMerge(tmp[i].lmid, tmp[i].hmid)]])

\* a child leaf of the split
ChildNode(tmp, svar, oq, low) ==
    LET q == SeedQ(IF low THEN tmp[svar].lowq ELSE tmp[svar].highq, oq)
    IN  [NewNode EXCEPT !.q = q, !.cnt = q.cnt, !.data = ChildData(tmp, svar, low)]

\* the index of the low child
LowIndex(ns) == Len(ns)
\* the high child on the index of the low child
HighIndex_Low(ns) == Len(ns)
\* the index of the high child
HighIndex(ns) == Len(ns) + 1

\* the split of node org on svar: the node itself, with its correction
SplitNode(node, tmp, svar, slow, shigh, sc) ==
    [node EXCEPT !.is_split = TRUE, !.var = svar,
                 !.boundary = tmp[svar].midpoint.avg,
                 !.low = slow, !.high = shigh,
                 !.correction = sc.correction, !.data = NullData]

\* whether the split bound of a dimension is moved
NeedsRebalance(dp) ==
    LET mx == MaxNat(dp.hmid.cnt, dp.lmid.cnt)
        mn == MinNat(dp.hmid.cnt, dp.lmid.cnt)
        nm == AvgMerge(dp.lmid, dp.hmid)
    IN  mx >= 2 /\ Pow5(mn) < mx /\ mx > dp.midpoint.cnt /\ nm.avg # dp.midpoint.avg

\* the moved split bound and the merged Q-values
Rebalance(dp) ==
    LET nm   == AvgMerge(dp.lmid, dp.hmid)
        half == [nm EXCEPT !.cnt = @ \div 2]
        mq   == approximate(dp.lowq, dp.highq)
        lq   == [mq EXCEPT !.cnt = @ \div 2]
    IN  [dp EXCEPT !.hmid = half, !.lmid = half,
                   !.midpoint = AvgMerge(@, nm), !.lowq = lq, !.highq = lq]

\* the loop over the dimensions of the else branch
RebalanceEach(data) ==
    Array([i \in Dims |-> IF NeedsRebalance(data[i]) THEN Rebalance(data[i]) ELSE data[i]])

\* if (rezero) every split filter is reset
ResetAll(data, rezero) ==
    IF rezero
    THEN Array([i \in Dims |-> [data[i] EXCEPT !.splitfilter = SplitFilterReset(@)]])
    ELSE data

\* the else branch with only the filters of the rebalanced dimensions reset
RebalanceAll_MovedOnly(data) ==
    Array([i \in Dims |->
        IF NeedsRebalance(data[i])
        THEN [Rebalance(data[i]) EXCEPT !.splitfilter = SplitFilterReset(@)]
        ELSE data[i]])

\* the else branch: every dimension that needs it is rebalanced, and if any was,
\* all split filters are reset
RebalanceAll(data) ==
    ResetAll(RebalanceEach(data), \E i \in Dims : NeedsRebalance(data[i]))

\* lines 296-331: the leaf with the sample added to its statistics
Sampled(node, point, nval, rate, ev) ==
    [node EXCEPT
        !.q = LearnQ(@, nval, rate),
        !.cnt = @ + 1,
        !.data = Array([i \in Dims |->
                    Refresh((IF @ = NullData THEN NewData ELSE @)[i],
                            point[i], nval, ev[i])])]

\* lines 334-381: the arena after leaf n (n1, with the sample added) is split
Split(ns, n, n1, svar, sc) ==
    Append(Append(Put(ns, n, SplitNode(n1, n1.data, svar, LowIndex(ns), HighIndex(ns), sc)),
                  ChildNode(n1.data, svar, n1.q, TRUE)),
           ChildNode(n1.data, svar, n1.q, FALSE))

SplitDone(ns, n, n1, svar, sc) ==
    [nodes |-> Split(ns, n, n1, svar, sc), split |-> TRUE, svar |-> svar,
     pre |-> n1, rebal |-> {}, solver |-> sc.solver, lp |-> sc.lp]

\* lines 382-418: the arena after leaf n (n1, with the sample added) is kept
NoSplitDone(ns, n, n1, svar) ==
    [nodes |-> Put(ns, n, [n1 EXCEPT !.data = RebalanceAll(@)]),
     split |-> FALSE, svar |-> svar, pre |-> n1,
     rebal |-> {i \in Dims : NeedsRebalance(n1.data[i])},
     solver |-> "none", lp |-> EmptyLP]

\* the rest of node_t::update once the sample is added
Decide(ns, n, n1, pick, solver) ==
    IF pick[1] > 0
    THEN SplitDone(ns, n, n1, pick[2], set_correction(n1, solver))
    ELSE NoSplitDone(ns, n, n1, pick[2])

\* node_t::update(point, dimen, nval, nodes, delta, options) on leaf n, where ev
\* is what the split filters report, pick the <<cnt, svar>> of the loop and
\* solver the LP solver's answer: the arena afterwards and what was done
node_update(ns, n, point, nval, rate, ev, pick, solver) ==
    Decide(ns, n, Sampled(At(ns, n), point, nval, rate, ev), pick, solver)

\* ------------------------------------------------------------------ actions
\* the label index after resolving label, creating its root when it is new
Resolve(ns, m, label) ==
    LET res == lower_bound(m, label)
    IN  IF res = Len(m) + 1 \/ m[res].label # label
        THEN [nodes |-> Append(ns, NewNode),
              mapping |-> InsertAt(m, res, [label |-> label, nid |-> Len(ns)]),
              res |-> res, created |-> TRUE]
        ELSE [nodes |-> ns, mapping |-> m, res |-> res, created |-> FALSE]

\* the answers the solver can give for the leaf as it is before the split
SolverChoices(n1, pick) ==
    IF pick[1] > 0 /\ n1.q.var # Num(0) THEN In.solvers ELSE {"opt"}

\* RefinementTree::update(label, point, dimen, nval, delta, options)
Update(label, point, nval, ev) ==
    /\ phase = "learn"
    /\ steps < In.depth
    /\ \E r \in {Resolve(nodes, mapping, label)} :
       \E n \in {get_leaf(r.nodes, point, r.mapping[r.res].nid)} :
       \E n1 \in {Sampled(At(r.nodes, n), point, nval, opts.q_learn_rate, ev)} :
       \E pick \in pick_svar(n1.data, 0, 0, 0) :
       \E solver \in SolverChoices(n1, pick) :
       \E u \in {node_update(r.nodes, n, point, nval, opts.q_learn_rate,
                             ev, pick, solver)} :
          /\ nodes' = u.nodes
          /\ mapping' = r.mapping
          /\ last' = [op |-> "update", label |-> label, point |-> point,
                      nval |-> nval, created |-> r.created, leaf |-> n,
                      len |-> Len(nodes), split |-> u.split, svar |-> u.svar,
                      pre |-> u.pre, rebal |-> u.rebal,
                      solver |-> u.solver, lp |-> u.lp]
    /\ steps' = steps + 1
    /\ seen' = seen \cup {label}
    /\ UNCHANGED <<opts, scen, phase>>

\* a call of lookup; it is const and changes nothing
Lookup(label, point) ==
    /\ phase = "learn"
    /\ last' = [op |-> "lookup", label |-> label, point |-> point,
                res |-> lookup(nodes, mapping, label, point)]
    /\ phase' = "query"
    /\ UNCHANGED <<nodes, mapping, opts, steps, seen, scen>>

\* a call of getBestQ; it is const and changes nothing
GetBestQ(point, minimization, next_labels) ==
    /\ phase = "learn"
    /\ last' = [op |-> "getBestQ", point |-> point, minimization |-> minimization,
                next_labels |-> next_labels,
                res |-> getBestQ(nodes, mapping, point, minimization, next_labels)]
    /\ phase' = "query"
    /\ UNCHANGED <<nodes, mapping, opts, steps, seen, scen>>

NoCall == [op |-> "none"]

InitWith(scens) ==
    /\ nodes = <<>>
    /\ mapping = <<>>
    /\ scen \in scens
    /\ opts \in [q_learn_rate : Inputs(scen).rates]
    /\ steps = 0
    /\ seen = {}
    /\ phase = "learn"
    /\ last = NoCall

Updates ==
    \E label \in In.labels, point \in In.points, nval \in In.nvals, ev \in In.evs :
        Update(label, point, nval, ev)

\* sequences of update calls
Init == InitWith({"wide", "deep"})
Next == Updates
Spec == Init /\ [][Next]_vars

\* sequences of update calls followed by lookup and getBestQ calls
InitRead == InitWith({"read"})
NextRead ==
    \/ Updates
    \/ \E label \in LookupLabels, point \in QueryPoints : Lookup(label, point)
    \/ \E point \in QueryPoints, minimization \in BOOLEAN, nl \in CandidateLists :
          GetBestQ(point, minimization, nl)
SpecRead == InitRead /\ [][NextRead]_vars


\* ------------------------------------------------------- reading the state
NodeIds == 0 .. (Len(nodes) - 1)
KnownLabels == {mapping[j].label : j \in 1 .. Len(mapping)}
RootOf(l) == mapping[CHOOSE j \in 1 .. Len(mapping) : mapping[j].label = l].nid
Roots == {mapping[j].nid : j \in 1 .. Len(mapping)}
IsChild(ns, c) == \E a \in 0 .. (Len(ns) - 1) :
                     At(ns, a).is_split /\ (At(ns, a).low = c \/ At(ns, a).high = c)
Updated == last.op = "update"
\* the arena length an update found, after the root of a new label was added
BaseLen == last.len + (IF last.created THEN 1 ELSE 0)

\* x is a node of the subtree of a
RECURSIVE InSubtree(_, _, _)
InSubtree(ns, x, a) ==
    \/ x = a
    \/ /\ At(ns, a).is_split
       /\ (InSubtree(ns, x, At(ns, a).low) \/ InSubtree(ns, x, At(ns, a).high))

\* node x lies below root, and at every Internal node above it the side taken
\* is the low one iff point[split dimension] <= split boundary
Routed(ns, root, point, x) ==
    /\ InSubtree(ns, x, root)
    /\ \A a \in 0 .. (Len(ns) - 1) :
          (a # x /\ At(ns, a).is_split /\ InSubtree(ns, a, root) /\ InSubtree(ns, x, a))
          => IF Leq(point[At(ns, a).var], At(ns, a).boundary)
             THEN InSubtree(ns, x, At(ns, a).low)
             ELSE InSubtree(ns, x, At(ns, a).high)

\* the leaves a descent from root may stop at
LeavesFor(ns, root, point) ==
    {x \in 0 .. (Len(ns) - 1) : ~At(ns, x).is_split /\ Routed(ns, root, point, x)}

\* ------------------------------------------------------------------ C1
C1_Sorted ==
    /\ \A j \in 1 .. (Len(mapping) - 1) : mapping[j].label < mapping[j + 1].label
    /\ KnownLabels = seen
    /\ \A j \in 1 .. Len(mapping) :
          mapping[j].nid \in NodeIds /\ ~IsChild(nodes, mapping[j].nid)

C1_Stable ==
    \A j \in 1 .. Len(mapping) : \E k \in 1 .. Len(mapping') : mapping'[k] = mapping[j]

\* C1: after any sequence of update calls the label index is strictly ascending
\* by label, holds exactly the labels ever updated, every entry refers to a
\* node that is the root of a tree (a valid node that is nobody's child), and
\* no entry, hence no root index, ever changes, also when the root is split.
C1_LabelIndex == [](C1_Sorted) /\ [][C1_Stable]_vars

\* a label was inserted in front of an older one whose root has been split
C1_Witness ==
    /\ Len(mapping) = 2
    /\ mapping[1].nid > mapping[2].nid
    /\ At(nodes, mapping[2].nid).is_split

\* ------------------------------------------------------------------ C2
C2_Seeded(child, part, oq) ==
    /\ child.q.cnt > 0
    /\ child.cnt = child.q.cnt
    /\ ~child.is_split
    /\ (part.cnt > 0 => child.q = part)
    /\ (part.cnt = 0 => child.q = [avg |-> oq.avg, cnt |-> 1, var |-> Num(0)])

\* C2: after every split both new children have a value count above zero: each
\* holds the split leaf's low / high partition statistic of the split
\* dimension, and a side without observations holds the split leaf's overall
\* mean with variance 0 and count 1.
C2_ChildrenSeeded ==
    (Updated /\ last.split) =>
        LET org == At(nodes, last.leaf)
            dp  == last.pre.data[org.var]
        IN  /\ C2_Seeded(At(nodes, org.low), dp.lowq, last.pre.q)
            /\ C2_Seeded(At(nodes, org.high), dp.highq, last.pre.q)

\* a split one side of which had no observation, the other more than one
C2_Witness ==
    /\ Updated /\ last.split
    /\ last.pre.data[last.svar].lowq.cnt = 0
    /\ last.pre.data[last.svar].highq.cnt > 1
    /\ At(nodes, At(nodes, last.leaf).low).q.cnt = 1

\* ------------------------------------------------------------------ C6
\* C6: in an update that does not split, if some dimension is rebalanced then
\* at the end the split filter of every dimension of the leaf is reset, and
\* the counts of the leaf's value statistics are above zero.
C6_ResetAll ==
    (Updated /\ ~last.split /\ last.rebal # {}) =>
        LET leaf == At(nodes, last.leaf)
        IN  /\ \A i \in Dims : leaf.data[i].splitfilter = 0
            /\ leaf.q.cnt > 0 /\ leaf.cnt > 0
            /\ \A i \in last.rebal :
                  leaf.data[i].lowq.cnt > 0 /\ leaf.data[i].highq.cnt > 0

\* one dimension was rebalanced, another was not and had gathered evidence
C6_Witness ==
    /\ Updated /\ ~last.split
    /\ \E i \in Dims, k \in Dims :
          /\ i \in last.rebal /\ k \notin last.rebal
          /\ last.pre.data[k].splitfilter > 0
          /\ At(nodes, last.leaf).data[i].lmid.cnt < last.pre.data[i].hmid.cnt

\* ------------------------------------------------------------------ C7
C7_Step ==
    (last'.op = "update") =>
        LET l    == last'
            q    == {i \in Dims : l.pre.data[i].splitfilter >= filter_val}
            base == Len(nodes) + (IF l.created THEN 1 ELSE 0)
            was  == {a \in 0 .. (Len(nodes) - 1) : At(nodes, a).is_split}
            now  == {a \in 0 .. (Len(nodes') - 1) : At(nodes', a).is_split}
        IN  /\ l.split <=> (q # {})
            /\ l.split =>
                  /\ Len(nodes') = base + 2
                  /\ now = was \cup {l.leaf} /\ l.leaf \notin was
                  /\ At(nodes', l.leaf).var \in q
                  /\ At(nodes', l.leaf).boundary =
                        l.pre.data[At(nodes', l.leaf).var].midpoint.avg
            /\ ~l.split => (Len(nodes') = base /\ now = was)

\* C7: an update splits the addressed leaf iff some dimension's evidence is
\* >= filter_val after the refresh; a splitting update makes exactly that one
\* leaf Internal and appends exactly two nodes, its split dimension is one of
\* the qualifying dimensions and its boundary that dimension's midpoint.
C7_OneSplit == [][C7_Step]_vars

\* a split with two qualifying dimensions, taken on the second one
C7_Witness ==
    /\ Updated /\ last.split
    /\ \A i \in Dims : last.pre.data[i].splitfilter >= filter_val
    /\ At(nodes, last.leaf).var = 1


\* ------------------------------------------------------------------ C8
C8_Forest ==
    /\ \A a \in NodeIds :
          LET node == At(nodes, a)
          IN  node.is_split =>
                /\ node.low # node.high
                /\ node.low \in NodeIds /\ node.high \in NodeIds
                /\ node.low > a /\ node.high > a
                /\ node.data = NullData
    /\ \A c \in NodeIds :
          Cardinality({a \in NodeIds : At(nodes, a).is_split /\
                          (At(nodes, a).low = c \/ At(nodes, a).high = c)}) <= 1
    /\ \A r \in Roots : ~IsChild(nodes, r)

C8_Frozen ==
    \A a \in NodeIds :
        At(nodes, a).is_split =>
            /\ a < Len(nodes')
            /\ At(nodes', a).is_split
            /\ At(nodes', a).var = At(nodes, a).var
            /\ At(nodes', a).boundary = At(nodes, a).boundary
            /\ At(nodes', a).low = At(nodes, a).low
            /\ At(nodes', a).high = At(nodes, a).high

\* C8: in every state reached by update calls the arena is a forest: an
\* Internal node has two distinct valid children with larger indices and no
\* DimensionStats, a node is the child of at most one node, no root of the
\* label index is a child; and an Internal node stays Internal with the same
\* split dimension, boundary and children.
C8_ForestKept == [](C8_Forest) /\ [][C8_Frozen]_vars

\* a tree split on two levels
C8_Witness ==
    /\ Len(mapping) = 1
    /\ \E a \in NodeIds, b \in NodeIds :
          /\ At(nodes, a).is_split /\ At(nodes, b).is_split
          /\ At(nodes, a).high = b

\* ------------------------------------------------------------------ C9
\* the slack columns of the pair (d, low) in the layout of the LP: after the
\* dimen weights and the constant, dimen columns each for low +, low -, high +
\* and high -
SlackPosCol(d, low) == Dimen + 2 + d + (IF low THEN 0 ELSE 2 * Dimen)
SlackNegCol(d, low) == SlackPosCol(d, low) + Dimen
SlackCols == (Dimen + 2) .. nCol

C9_RowOK(row) ==
    \A c \in SlackCols :
        row.coef[c] = (IF c = SlackPosCol(row.d, row.low) THEN Num(1)
                       ELSE IF c = SlackNegCol(row.d, row.low) THEN Num(-1)
                       ELSE Num(0))

C9_ObjOK(lp, row) ==
    /\ lp.obj[SlackPosCol(row.d, row.low)] = [d |-> row.d, low |-> row.low, kind |-> "pos"]
    /\ lp.obj[SlackNegCol(row.d, row.low)] = [d |-> row.d, low |-> row.low, kind |-> "neg"]

\* C9: in the LP built by set_correction, the row of every (dimension, side)
\* with an observation has +1 on its own positive slack column, -1 on its own
\* negative slack column and 0 on every other slack column, and the pair's two
\* objective coefficients lie on its own two slack columns.
C9_SlackColumns ==
    (Updated /\ last.lp.built) =>
        \A row \in last.lp.rows : C9_RowOK(row) /\ C9_ObjOK(last.lp, row)

\* ------------------------------------------------------------------ C10
C10_State ==
    /\ \A a \in NodeIds : ~At(nodes, a).is_split => ~At(nodes, a).correction
    /\ (Updated /\ ~last.split) => last.solver = "none"
    /\ (Updated /\ last.split) =>
          LET org == At(nodes, last.leaf)
          IN  /\ (last.pre.q.var = Num(0)) <=> (last.solver = "skipped")
              /\ last.solver \in {"skipped", "noprob", "opt", "fail"}
              /\ org.correction <=> (last.solver = "opt")
              /\ org.is_split /\ org.data = NullData
              /\ org.low = BaseLen /\ org.high = BaseLen + 1
              /\ Len(nodes) = BaseLen + 2

C10_Once ==
    \A a \in NodeIds :
        At(nodes, a).is_split => At(nodes', a).correction = At(nodes, a).correction

\* C10: a Correction is computed only when a leaf is split and never again for
\* that node: with a value variance of exactly zero the solver is not invoked
\* and the Correction stays absent, with a failing or non-optimal solver it is
\* absent, the split is completed in both cases, and a node that was never
\* split has no Correction.
C10_Correction == [](C10_State) /\ [][C10_Once]_vars

\* a split completed although the solver failed, after another split that left
\* no Correction either
C10_Witness ==
    /\ Updated /\ last.split /\ last.solver = "fail"
    /\ ~At(nodes, last.leaf).correction
    /\ \E a \in NodeIds : a # last.leaf /\ At(nodes, a).is_split /\ ~At(nodes, a).correction


\* ------------------------------------------------------------------ C3
\* the labels getBestQ is to aggregate over
C3_Candidates(next_labels) ==
    IF next_labels = NullLabels THEN KnownLabels
    ELSE {next_labels[k] : k \in 1 .. Len(next_labels)} \cap KnownLabels

\* the usable means of the leaves the candidates' descents stop at
C3_Means(point, next_labels) ==
    {v \in {At(nodes, x).q.avg :
                x \in UNION {LeavesFor(nodes, RootOf(l), point) :
                                l \in C3_Candidates(next_labels)}} :
        IsFin(v)}

C3_Best(point, minimization, next_labels) ==
    LET F == C3_Means(point, next_labels)
    IN  IF F = {} THEN (IF minimization THEN PInf ELSE NInf)
        ELSE CHOOSE v \in F :
                \A w \in F : IF minimization THEN Leq(v, w) ELSE Leq(w, v)

\* C3: getBestQ returns the minimum (maximum when maximizing) of the finite
\* means of the leaves reached by descent, over all known labels for a null
\* candidate list and over the known labels among the candidates for an
\* ascending list; NaN and infinite means are skipped, and without a finite
\* value the result is +infinity when minimizing, -infinity when maximizing.
C3_BestQ ==
    (last.op = "getBestQ") =>
        last.res = C3_Best(last.point, last.minimization, last.next_labels)

\* a candidate list with an unknown label between two known ones, one of which
\* has a NaN mean, answered with the finite mean of the other
C3_Witness ==
    /\ last.op = "getBestQ"
    /\ last.next_labels = <<1, 2, 3>>
    /\ KnownLabels = {1, 3}
    /\ isnan(lookup(nodes, mapping, 1, last.point).avg)
    /\ IsFin(last.res)

\* ------------------------------------------------------------------ C4
C4_Step ==
    (last'.op = "lookup" /\ last'.label \notin seen) =>
        /\ last'.res = [avg |-> NaN, cnt |-> 0, var |-> Num(0)]
        /\ nodes' = nodes
        /\ mapping' = mapping

\* C4: lookup with a label never passed to update returns {NaN, 0, 0} and
\* leaves the label index and the node arena as they were.
C4_UnknownLabel == [][C4_Step]_vars

\* a lookup of a label lying between two known ones
C4_Witness ==
    /\ last.op = "lookup"
    /\ last.label = 2
    /\ KnownLabels = {1, 3}
    /\ isnan(last.res.avg) /\ last.res.cnt = 0
    /\ Len(nodes) >= 2

\* ------------------------------------------------------------------ C5
\* what lookup answers from leaf x
C5_Stats(x) == [avg |-> At(nodes, x).q.avg, cnt |-> At(nodes, x).cnt,
                var |-> At(nodes, x).q.var]

\* C5: a descent follows the low child iff point[split dimension] <= split
\* boundary, the high child otherwise, and stops at the first Leaf: the leaf
\* get_leaf returns for any root and point, the leaf update addresses, the
\* leaf lookup answers from and the leaf getBestQ reads for a single candidate
\* are all routed this way.
C5_Descent ==
    /\ \A r \in Roots, p \in QueryPoints :
          LeavesFor(nodes, r, p) = {get_leaf(nodes, p, r)}
    /\ Updated =>
          /\ Routed(nodes, RootOf(last.label), last.point, last.leaf)
          /\ (last.split \/ ~At(nodes, last.leaf).is_split)
    /\ (last.op = "lookup" /\ last.label \in KnownLabels) =>
          \E x \in LeavesFor(nodes, RootOf(last.label), last.point) :
              last.res = C5_Stats(x)
    /\ (last.op = "getBestQ" /\ last.next_labels = <<2>> /\ 2 \in KnownLabels
        /\ last.minimization) =>
          \E x \in LeavesFor(nodes, RootOf(2), last.point) :
              last.res = (IF IsFin(At(nodes, x).q.avg) THEN At(nodes, x).q.avg ELSE PInf)

\* an update whose point lies exactly on the boundary of a split it passes
\* went to the low child
C5_Witness ==
    /\ Updated
    /\ \E a \in NodeIds :
          /\ At(nodes, a).is_split
          /\ a = RootOf(last.label)
          /\ last.point[At(nodes, a).var] = At(nodes, a).boundary
          /\ last.leaf = At(nodes, a).low
          /\ At(nodes, last.leaf).cnt > At(nodes, At(nodes, a).high).cnt

====
